---- MODULE Spec2Model ----
(***************************************************************************)
(* Model of the reconstruction chain of lartpc_mlreco3d:                   *)
(*   - FullChain.forward         (mlreco/models/full_chain_5.py)           *)
(*   - FullChainLoss             (mlreco/models/full_chain_5.py)           *)
(*   - EdgeChannelLoss           (mlreco/models/cluster_edge_gnn.py)       *)
(* Arrays are 0-based, as in the source: an array of length n is a         *)
(* function with domain 0..n-1.  A point-index array is kept in the order  *)
(* the code builds it, so that a duplicated index would be visible.        *)
(***************************************************************************)
EXTENDS Integers, Sequences, FiniteSets, TLC

\* ---------------------------------------------------------------- bounds
MaxPoints == 3
MaxBatch == 2
MaxGroupId == 1
MaxTrackPoints == 4
MaxX == 3
MaxGpus == 2
MaxClusts == 2
MaxLoss == 2
MaxWeight == 2
MaxCompLoss == 1

\* -------------------------------------------------------- program constants
ShowerClass == 0
TrackClass == 1
NoPrimary == 0 - 1
Classes == {0, 1, 2}

\* The second coordinate of a voxel: the points of a track lie on two rows
Rows == {0, 1}

\* The primary score of a node as far as an argmax tells scores apart: two
\* levels give a strict winner as well as a tie
Scores == {0, 1}

\* ------------------------------------------------------------ array helpers
EmptyArr == <<>>

Len0(a) == Cardinality(DOMAIN a)


Elems(a) == {a[i] : i \in DOMAIN a}

Append0(a, x) == [i \in 0..Len0(a) |-> IF i < Len0(a) THEN a[i] ELSE x]

Concat0(a, b) ==
  LET x == a
      y == b
      n == Len0(x)
  IN [i \in 0..(n + Len0(y) - 1) |-> IF i < n THEN x[i] ELSE y[i - n]]

\* np.arange(n)
Arange(n) == [i \in 0..(n - 1) |-> i]

\* The elements of a set of integers in increasing order (np.where, np.unique)
SortedArr(S) ==
  LET T == S
  IN [k \in 0..(Cardinality(T) - 1) |-> CHOOSE x \in T : Cardinality({y \in T : y < x}) = k]

\* np.where(mask)[0]: the indices of an array whose entry is in W, increasing
NpWhere(a, W) == SortedArr({i \in DOMAIN a : a[i] \in W})

\* a[idx] for an index array idx
Take(a, idx) ==
  LET src == a
      sel == idx
  IN [k \in DOMAIN sel |-> src[sel[k]]]

\* np.concatenate of a non-empty array of arrays
RECURSIVE ConcatUpTo(_, _)
ConcatUpTo(aa, n) == IF n = 0 THEN EmptyArr ELSE Concat0(ConcatUpTo(aa, n - 1), aa[n - 1])

NpConcatenate(aa) == ConcatUpTo(aa, Len0(aa))

RECURSIVE SumUpTo(_, _)
SumUpTo(a, n) == IF n = 0 THEN 0 ELSE SumUpTo(a, n - 1) + a[n - 1]

\* ------------------------------------------------------------------- state
VARIABLES
  pc, err,
  input_batch, semantic_labels, fragments,
  frag_batch_ids, frag_seg,
  em_mask, edge_index, beids, frags, node_pred, edge_pred, frag_edge_index,
  group_ids,
  particles, part_primary_ids, part_batch_ids, part_seg,
  inter_index, inter_beids, feat_pts, out_particles, inter_edge_pred, inter_edge_index,
  track_pts, idx, start_id, end_id, start, end, dir,
  model_config, remove_compton, loss, lossfn, ngpus, i_gpu, seen, total_loss, total_acc, result,
  loss_config, weights, res_loss, chain_loss

inVars == <<input_batch, semantic_labels, fragments>>
fragVars == <<frag_batch_ids, frag_seg>>
pgnnVars == <<em_mask, edge_index, beids, frags, node_pred, edge_pred, frag_edge_index>>
partVars == <<particles, part_primary_ids, part_batch_ids, part_seg>>
interVars == <<inter_index, inter_beids, feat_pts, out_particles, inter_edge_pred, inter_edge_index>>
fwdVars == <<inVars, fragVars, pgnnVars, group_ids, partVars, interVars>>
trackVars == <<track_pts, idx, start_id, end_id, start, end, dir>>
edgeLossVars ==
  <<model_config, remove_compton, loss, lossfn, ngpus, i_gpu, seen, total_loss, total_acc, result>>
chainLossVars == <<loss_config, weights, res_loss, chain_loss>>
vars == <<pc, err, fwdVars, trackVars, edgeLossVars, chainLossVars>>

\* ------------------------------------------------------------------ inputs
\* input[0][:,3]: batch ids, sorted, every batch element 0..B-1 has a point
BatchArrs(n) ==
  {b \in [0..(n - 1) -> 0..(MaxBatch - 1)] :
     /\ b[0] = 0
     /\ \A i \in 1..(n - 1) : b[i] \in {b[i - 1], b[i - 1] + 1}}

\* The fragmenter's labelling of the points: fragments partition the points,
\* each lies in one batch element, and they are numbered by batch element
FragLabels(n, b) ==
  {fl \in [0..(n - 1) -> 0..(n - 1)] :
     /\ fl[0] = 0
     /\ \A i \in 1..(n - 1) : \E j \in 0..(i - 1) : fl[i] <= fl[j] + 1
     /\ \A i, j \in 0..(n - 1) : fl[i] = fl[j] => b[i] = b[j]}

FragmentsOf(n, fl) ==
  [f \in 0..(Cardinality({fl[i] : i \in 0..(n - 1)}) - 1) |->
     SortedArr({i \in 0..(n - 1) : fl[i] = f})]

\* --------------------------------------------------------- shared helpers
\* np.unique(a, return_counts=True)[1]: the count of every distinct value of
\* a, in increasing order of the values
UniqueCounts(a) ==
  LET x == a
      vals == SortedArr(Elems(x))
  IN [k \in DOMAIN vals |-> Cardinality({i \in DOMAIN x : x[i] = vals[k]})]

\* _, counts = torch.unique(input[0][:,3], return_counts=True)
Counts == UniqueCounts(input_batch)

NumBatch == Len0(Counts)

\* vids: the index of every point within its batch element
Vids ==
  LET counts == Counts
  IN NpConcatenate([b \in DOMAIN counts |-> Arange(counts[b])])

\* voxel_inds = counts[:b].sum() + np.arange(counts[b])
VoxelInds(b) ==
  LET counts == Counts
      offset == SumUpTo(counts, b)
  IN [l \in 0..(counts[b] - 1) |-> offset + l]

\* get_cluster_batch: the batch id of a cluster is that of its points
GetClusterBatch(clusts) == [c \in DOMAIN clusts |-> input_batch[clusts[c][0]]]

\* complete_graph: every pair i < j of nodes of the same batch element
CompleteGraph(batch) ==
  LET x == batch
      n == Len0(x)
      E == {e \in (0..(n - 1)) \X (0..(n - 1)) : e[1] < e[2] /\ x[e[1]] = x[e[2]]}
  IN [k \in 0..(Cardinality(E) - 1) |->
        CHOOSE e \in E : Cardinality({d \in E : d[1] * n + d[2] < e[1] * n + e[2]}) = k]

\* semantic_labels[p].unique(): the labels carried by the points of p
LabelVals(p) == {semantic_labels[p[k]] : k \in DOMAIN p}

\* vals[torch.argmax(cnts)]: the most frequent label (lowest on a tie)
MajorityLabel(p) ==
  LET cnt(v) == Cardinality({k \in DOMAIN p : semantic_labels[p[k]] = v})
  IN CHOOSE v \in LabelVals(p) :
       \A w \in LabelVals(p) : cnt(w) < cnt(v) \/ (cnt(w) = cnt(v) /\ v <= w)

AssertNonEmpty(p) == Cardinality(LabelVals(p)) >= 1

\* assert len(vals) == 1
AssertHomogeneous(p) == Cardinality(LabelVals(p)) = 1

\* ------------------------------------------- FullChain.forward, lines 101-110
\* The variables of a program that is not running
FwdLocalsUnset ==
  /\ frag_batch_ids = EmptyArr /\ frag_seg = EmptyArr
  /\ em_mask = EmptyArr /\ edge_index = EmptyArr /\ beids = EmptyArr /\ frags = EmptyArr
  /\ node_pred = EmptyArr /\ edge_pred = EmptyArr /\ frag_edge_index = EmptyArr
  /\ group_ids = EmptyArr
  /\ particles = EmptyArr /\ part_primary_ids = EmptyArr
  /\ part_batch_ids = EmptyArr /\ part_seg = EmptyArr
  /\ inter_index = EmptyArr /\ inter_beids = EmptyArr /\ feat_pts = EmptyArr
  /\ out_particles = EmptyArr /\ inter_edge_pred = EmptyArr /\ inter_edge_index = EmptyArr

FwdUnset ==
  /\ input_batch = EmptyArr /\ semantic_labels = EmptyArr /\ fragments = EmptyArr
  /\ FwdLocalsUnset

TrackUnset ==
  /\ track_pts = EmptyArr /\ idx = 0 /\ start_id = 0 /\ end_id = 0
  /\ start = <<0, 0>> /\ end = <<0, 0>> /\ dir = [vec |-> <<0, 0>>, norm2 |-> 1]

EdgeLossUnset ==
  /\ model_config = EmptyArr
  /\ remove_compton = TRUE /\ loss = "unset" /\ lossfn = "unset"
  /\ ngpus = 0 /\ i_gpu = 0 /\ seen = EmptyArr
  /\ total_loss = 0 /\ total_acc = 0 /\ result = "none"

ChainLossUnset ==
  /\ loss_config = EmptyArr /\ weights = EmptyArr /\ res_loss = EmptyArr /\ chain_loss = 0

Init ==
  /\ pc = "input"
  /\ err = "none"
  /\ \E n \in 1..MaxPoints :
       \E b \in BatchArrs(n) :
         \E fl \in FragLabels(n, b) :
           /\ input_batch = b
           /\ semantic_labels \in [0..(n - 1) -> Classes]
           /\ fragments = FragmentsOf(n, fl)
  /\ FwdLocalsUnset
  /\ TrackUnset /\ EdgeLossUnset /\ ChainLossUnset

\* Fragment class derivation: the loop asserts that every fragment carries one
\* semantic label and aborts the pass otherwise
Fragment ==
  /\ pc = "input"
  /\ frag_batch_ids' = GetClusterBatch(fragments)
  /\ IF \A f \in DOMAIN fragments : AssertHomogeneous(fragments[f])
       THEN /\ frag_seg' = [f \in DOMAIN fragments |-> MajorityLabel(fragments[f])]
            /\ pc' = "fragmented"
            /\ err' = err
       ELSE /\ frag_seg' = EmptyArr
            /\ pc' = "raised"
            /\ err' = "AssertionError"
  /\ UNCHANGED <<inVars, pgnnVars, group_ids, partVars, interVars>>
  /\ UNCHANGED <<trackVars, edgeLossVars, chainLossVars>>

\* ------------------------------------------- FullChain.forward, lines 112-152
\* em_mask = np.where(frag_seg == 0)[0]
EmMask == NpWhere(frag_seg, {ShowerClass})

\* frag_batch_ids[em_mask]
EmBatch == Take(frag_batch_ids, EmMask)

\* fragments[em_mask]
EmFragments == Take(fragments, EmMask)

\* edge_index = complete_graph(frag_batch_ids[em_mask])
FragEdges == CompleteGraph(EmBatch)

CidsGlobal(batch) == Arange(Len0(batch))

\* cids: the index of every node within its batch element
Cids(batch) ==
  LET counts == UniqueCounts(batch)
  IN NpConcatenate([k \in DOMAIN counts |-> Arange(counts[k])])

\* bcids[b] = np.where(frag_batch_ids[em_mask] == b)[0]
FragBcids(b) == NpWhere(EmBatch, {b})

FragBeidsUnfiltered(b) == Arange(Len0(FragEdges))

\* beids[b] = np.where(frag_batch_ids[em_mask][edge_index[0]] == b)[0]
FragBeids(b) ==
  LET edges == FragEdges
      batch == EmBatch
  IN NpWhere([k \in DOMAIN edges |-> batch[edges[k][1]]], {b})

\* cids[edge_index[:,b]].T
LocalEdges(cids, edges, sel) ==
  LET c == cids
      e == edges
      s == sel
  IN [k \in DOMAIN s |-> <<c[e[s[k]][1]], c[e[s[k]][2]]>>]

\* frags[b] = [[vids[c] for c in f] for f in fragments[em_mask][bcids[b]]]
LocalFrags(b) ==
  LET bcids == FragBcids(b)
      vids == Vids
      clusts == EmFragments
  IN [k \in DOMAIN bcids |-> Take(vids, clusts[bcids[k]])]

\* The shower-fragment graph, the particle GNN call and the split of its
\* output per batch element.  The GNN's node score of every fragment is any
\* value; row k of its edge prediction is written k.  np.concatenate of an
\* empty list (no shower fragment in the whole batch) raises ValueError.
ParticleGNN ==
  /\ pc = "fragmented"
  /\ em_mask' = EmMask
  /\ edge_index' = FragEdges
  /\ IF Len0(EmMask) = 0
       THEN /\ pc' = "raised"
            /\ err' = "ValueError"
            /\ UNCHANGED <<beids, frags, node_pred, edge_pred, frag_edge_index>>
       ELSE /\ \E scores \in [DOMAIN EmMask -> Scores] :
                 node_pred' = [b \in 0..(NumBatch - 1) |-> Take(scores, FragBcids(b))]
            /\ beids' = [b \in 0..(NumBatch - 1) |-> FragBeids(b)]
            /\ edge_pred' = [b \in 0..(NumBatch - 1) |-> FragBeids(b)]
            /\ frag_edge_index' =
                 [b \in 0..(NumBatch - 1) |-> LocalEdges(Cids(EmBatch), FragEdges, FragBeids(b))]
            /\ frags' = [b \in 0..(NumBatch - 1) |-> LocalFrags(b)]
            /\ pc' = "particle_gnn"
            /\ err' = err
  /\ UNCHANGED <<inVars, fragVars, group_ids, partVars, interVars>>
  /\ UNCHANGED <<trackVars, edgeLossVars, chainLossVars>>

\* ------------------------------------------- FullChain.forward, lines 154-162
\* node_assignment_score gives every shower fragment of an element a group id;
\* an element without shower fragments gets the empty array
GroupPredict ==
  /\ pc = "particle_gnn"
  /\ \E ga \in [DOMAIN em_mask -> 0..MaxGroupId] :
       group_ids' = [b \in 0..(NumBatch - 1) |->
                       IF Len0(frags[b]) = 0 THEN EmptyArr ELSE Take(ga, FragBcids(b))]
  /\ pc' = "grouped"
  /\ UNCHANGED <<err, inVars, fragVars, pgnnVars, partVars, interVars>>
  /\ UNCHANGED <<trackVars, edgeLossVars, chainLossVars>>

\* ------------------------------------------- FullChain.forward, lines 164-188
\* primary_assignment: within every group, the fragment of highest primary
\* score (the first of them on a tie) is labelled primary
PrimaryAssignment(scores, gids) ==
  [k \in DOMAIN gids |->
     LET M == {m \in DOMAIN gids : gids[m] = gids[k]}
     IN /\ \A m \in M : scores[m] <= scores[k]
        /\ \A m \in M : m < k => scores[m] < scores[k]]

PrimaryIdFirstMember(group_mask, primary_labels) == group_mask[0]

\* primary_id = group_mask[primary_labels[group_mask]][0]
PrimaryId(group_mask, primary_labels) ==
  LET sel == {k \in DOMAIN group_mask : primary_labels[group_mask[k]]}
  IN group_mask[CHOOSE k \in sel : \A j \in sel : k <= j]

\* group_mask = np.where(group_ids[b] == g)[0]
GroupMask(b, g) == NpWhere(group_ids[b], {g})

MergedPointsNoOffset(b, group_mask) == NpConcatenate(Take(frags[b], group_mask))

\* voxel_inds[np.concatenate(frags[b][group_mask])]
MergedPoints(b, group_mask) ==
  Take(VoxelInds(b), NpConcatenate(Take(frags[b], group_mask)))

\* One particle per shower group of element b, in increasing group id
ShowerParticles(b) ==
  LET gs == SortedArr(Elems(group_ids[b]))
      primary_labels == PrimaryAssignment(node_pred[b], group_ids[b])
  IN [k \in DOMAIN gs |->
        LET group_mask == GroupMask(b, gs[k])
        IN [pts |-> MergedPoints(b, group_mask),
            prim |-> PrimaryId(group_mask, primary_labels)]]

NonShowerMaskAnyBatch(b) ==
  SortedArr({f \in DOMAIN fragments : frag_seg[f] # ShowerClass})

\* mask = (frag_batch_ids == b) & (frag_seg != 0)
NonShowerMask(b) ==
  SortedArr({f \in DOMAIN fragments : frag_batch_ids[f] = b /\ frag_seg[f] # ShowerClass})

\* particles.extend(fragments[mask]); part_primary_ids.extend(-np.ones(...))
PassThrough(b) ==
  LET mask == NonShowerMask(b)
  IN [k \in DOMAIN mask |-> [pts |-> fragments[mask[k]], prim |-> NoPrimary]]

AssembledParticles ==
  NpConcatenate([b \in 0..(NumBatch - 1) |-> Concat0(ShowerParticles(b), PassThrough(b))])

\* Merge the fragments into particles, then derive every particle's class
Assemble ==
  /\ pc = "grouped"
  /\ LET ap == AssembledParticles
     IN /\ particles' = [i \in DOMAIN ap |-> ap[i].pts]
        /\ part_primary_ids' = [i \in DOMAIN ap |-> ap[i].prim]
        /\ part_batch_ids' = GetClusterBatch([i \in DOMAIN ap |-> ap[i].pts])
        /\ IF \A i \in DOMAIN ap : AssertHomogeneous(ap[i].pts)
             THEN /\ part_seg' = [i \in DOMAIN ap |-> MajorityLabel(ap[i].pts)]
                  /\ pc' = "assembled"
                  /\ err' = err
             ELSE /\ part_seg' = EmptyArr
                  /\ pc' = "raised"
                  /\ err' = "AssertionError"
  /\ UNCHANGED <<inVars, fragVars, pgnnVars, group_ids, interVars>>
  /\ UNCHANGED <<trackVars, edgeLossVars, chainLossVars>>

\* ------------------------------------------- FullChain.forward, lines 190-245
\* edge_index = complete_graph(part_batch_ids)
InterEdges == CompleteGraph(part_batch_ids)

\* bcids[b] = np.where(part_batch_ids == b)[0]
InterBcids(b) == NpWhere(part_batch_ids, {b})

\* beids[b] = np.where(part_batch_ids[edge_index[0]] == b)[0]
InterBeids(b) ==
  LET edges == InterEdges
  IN NpWhere([k \in DOMAIN edges |-> part_batch_ids[edges[k][1]]], {b})

\* The points p that line 220 takes the energy mean and deviation over: for a
\* shower particle p has been rebound to the points of its primary fragment
FeaturePoints(i) ==
  IF part_seg[i] = TrackClass THEN particles[i]
  ELSE IF part_seg[i] = ShowerClass
         THEN Take(VoxelInds(part_batch_ids[i]), frags[part_batch_ids[i]][part_primary_ids[i]])
         ELSE particles[i]

\* particles[b] = [[vids[c] for c in p] for p in particles[bcids[b]]]
LocalParticles(b) ==
  LET bcids == InterBcids(b)
      vids == Vids
  IN [k \in DOMAIN bcids |-> Take(vids, particles[bcids[k]])]

\* The particle graph, the particle features, the interaction GNN call and
\* the split of its output per batch element
Interaction ==
  /\ pc = "assembled"
  /\ inter_index' = InterEdges
  /\ feat_pts' = [i \in DOMAIN particles |-> FeaturePoints(i)]
  /\ inter_beids' = [b \in 0..(NumBatch - 1) |-> InterBeids(b)]
  /\ inter_edge_pred' = [b \in 0..(NumBatch - 1) |-> InterBeids(b)]
  /\ inter_edge_index' =
       [b \in 0..(NumBatch - 1) |-> LocalEdges(Cids(part_batch_ids), InterEdges, InterBeids(b))]
  /\ out_particles' = [b \in 0..(NumBatch - 1) |-> LocalParticles(b)]
  /\ pc' = "done"
  /\ UNCHANGED <<err, inVars, fragVars, pgnnVars, group_ids, partVars>>
  /\ UNCHANGED <<trackVars, edgeLossVars, chainLossVars>>

Next == Fragment \/ ParticleGNN \/ GroupPredict \/ Assemble \/ Interaction

Spec == Init /\ [][Next]_vars

\* ------------------------------------------------ properties of the forward
Assembled == pc \in {"assembled", "done"}

\* The points of shower fragment k of element b, as global point indices
GlobalFrag(b, k) == Elems(Take(VoxelInds(b), frags[b][k]))

\* The shower fragments of element b merged into particle i
Members(i) ==
  {k \in DOMAIN frags[part_batch_ids[i]] :
     GlobalFrag(part_batch_ids[i], k) \subseteq Elems(particles[i])}

\* The points of p carry more than one semantic label
MixedLabels(p) == \E j, k \in DOMAIN p : semantic_labels[p[j]] # semantic_labels[p[k]]

AllHomogeneous == \A f \in DOMAIN fragments : ~MixedLabels(fragments[f])

\* C1: once the particles are assembled, every input point index occurs
\* exactly once in the particle list: the particles are pairwise disjoint,
\* hold no index twice and their union is the input point set
C1_ParticlesPartitionPoints ==
  Assembled =>
    /\ \A i \in DOMAIN particles : Elems(particles[i]) \subseteq DOMAIN input_batch
    /\ \A pt \in DOMAIN input_batch :
         Cardinality({ik \in UNION {{<<i, k>> : k \in DOMAIN particles[i]} : i \in DOMAIN particles} :
                        particles[ik[1]][ik[2]] = pt}) = 1

C1_Witness ==
  /\ pc = "assembled"
  /\ NumBatch = 2
  /\ \E i \in DOMAIN particles : part_primary_ids[i] # NoPrimary /\ Cardinality(Members(i)) >= 2
  /\ \E i \in DOMAIN particles : part_primary_ids[i] = NoPrimary

\* The batch ids of the two fragments joined by edge e of the shower graph
FragEdgeBatches(e) == {frag_batch_ids[em_mask[e[1]]], frag_batch_ids[em_mask[e[2]]]}

\* C2: every edge placed in frag_edge_index[b] joins two fragments of batch
\* element b, and every edge placed in inter_edge_index[b] joins two particles
\* of batch element b
C2_NoCrossBatchEdges ==
  /\ \A b \in DOMAIN beids : \A k \in DOMAIN beids[b] :
       FragEdgeBatches(edge_index[beids[b][k]]) = {b}
  /\ \A b \in DOMAIN inter_beids : \A k \in DOMAIN inter_beids[b] :
       {part_batch_ids[inter_index[inter_beids[b][k]][1]],
        part_batch_ids[inter_index[inter_beids[b][k]][2]]} = {b}

C2_Witness ==
  /\ pc = "done"
  /\ NumBatch = 2
  /\ \E b \in DOMAIN frag_edge_index : Len0(frag_edge_index[b]) > 0
  /\ \E b \in DOMAIN inter_edge_index : Len0(inter_edge_index[b]) > 0
  /\ \A b \in DOMAIN frag_edge_index : Len0(frags[b]) > 0

\* Element b has no point, hence no fragment, of the shower class
NoShower(b) == \A i \in DOMAIN input_batch : input_batch[i] = b => semantic_labels[i] # ShowerClass

\* C3: a batch element without shower fragments never makes the pass raise,
\* and the finished pass gives it empty node and edge predictions, an empty
\* group-id array and no merged particle
C3_EmptyElementSafe ==
  \A b \in 0..(NumBatch - 1) :
    (AllHomogeneous /\ NoShower(b)) =>
      /\ pc # "raised"
      /\ pc = "done" =>
           /\ Len0(node_pred[b]) = 0
           /\ Len0(edge_pred[b]) = 0
           /\ Len0(group_ids[b]) = 0
           /\ \A i \in DOMAIN particles :
                part_batch_ids[i] = b => part_primary_ids[i] = NoPrimary

\* C6: the primary id of a merged shower particle is the local index of one
\* of its member fragments, and no member has a higher primary score
C6_PrimaryIsBestMember ==
  Assembled =>
    \A i \in DOMAIN particles :
      part_primary_ids[i] # NoPrimary =>
        /\ part_primary_ids[i] \in Members(i)
        /\ \A m \in Members(i) :
             node_pred[part_batch_ids[i]][m] <= node_pred[part_batch_ids[i]][part_primary_ids[i]]

C6_Witness ==
  /\ pc = "assembled"
  /\ \E i \in DOMAIN particles :
       /\ part_primary_ids[i] # NoPrimary
       /\ \E m \in Members(i) :
            /\ m < part_primary_ids[i]
            /\ node_pred[part_batch_ids[i]][m] < node_pred[part_batch_ids[i]][part_primary_ids[i]]

\* C7: every fragment of a class other than shower is exactly one particle of
\* its own batch element, with the fragment's points and nothing else, and
\* with the no-primary marker
C7_NonShowerPassThrough ==
  Assembled =>
    \A f \in DOMAIN fragments :
      frag_seg[f] # ShowerClass =>
        /\ Cardinality({i \in DOMAIN particles : particles[i] = fragments[f]}) = 1
        /\ \A i \in DOMAIN particles :
             (Elems(particles[i]) \cap Elems(fragments[f]) # {}) =>
               /\ particles[i] = fragments[f]
               /\ part_batch_ids[i] = frag_batch_ids[f]
               /\ part_primary_ids[i] = NoPrimary

C7_Witness ==
  /\ pc = "assembled"
  /\ NumBatch = 2
  /\ \E f \in DOMAIN fragments : frag_seg[f] # ShowerClass /\ Len0(fragments[f]) >= 2

\* C8: a fragment or particle whose points carry more than one semantic label
\* aborts the pass with an assertion error, and the pass returns nothing
C8_HeterogeneousAborts ==
  ((pc # "input" /\ ~AllHomogeneous)
     \/ (\E i \in DOMAIN particles : MixedLabels(particles[i]))) =>
    /\ pc = "raised"
    /\ err = "AssertionError"
    /\ Len0(frags) = 0
    /\ Len0(out_particles) = 0
    /\ Len0(inter_edge_index) = 0

C8_Witness ==
  /\ pc = "raised"
  /\ err = "AssertionError"
  /\ \E f \in DOMAIN fragments : Cardinality(LabelVals(fragments[f])) = 2

\* C11: the energy mean and deviation in the feature row of every particle,
\* shower particles merged from several fragments included, are taken over
\* exactly the point set of the particle
C11_FeaturesOverFullParticle ==
  pc = "done" =>
    \A i \in DOMAIN particles : Elems(feat_pts[i]) = Elems(particles[i])

\* The number of points of batch element b
NumPoints(b) == Cardinality({pt \in DOMAIN input_batch : input_batch[pt] = b})

\* The shower fragments of batch element b, as positions in em_mask
ShowerNodes(b) == {j \in DOMAIN em_mask : frag_batch_ids[em_mask[j]] = b}

\* The particles of batch element b
ParticleNodes(b) == {i \in DOMAIN part_batch_ids : part_batch_ids[i] = b}

\* Node g is the l-th (from 0) of the set N of nodes of one batch element
IsLocalOf(l, g, N) == g \in N /\ l = Cardinality({j \in N : j < g})

\* The outputs of the particle GNN are split into one entry per batch
\* element, in batch order: entry b holds one node row per shower fragment of
\* element b and one edge row per edge of element b, every local node index
\* of frag_edge_index[b] is in range and stands for the fragment whose global
\* index it replaced, and every local point index of frags[b] is in range
FragRebatchCorrect ==
  pc \in {"particle_gnn", "grouped", "assembled", "done"} =>
    /\ DOMAIN node_pred = 0..(NumBatch - 1)
    /\ DOMAIN edge_pred = 0..(NumBatch - 1)
    /\ DOMAIN frag_edge_index = 0..(NumBatch - 1)
    /\ DOMAIN frags = 0..(NumBatch - 1)
    /\ \A b \in 0..(NumBatch - 1) :
         /\ Len0(node_pred[b]) = Cardinality(ShowerNodes(b))
         /\ Len0(frags[b]) = Cardinality(ShowerNodes(b))
         /\ Elems(edge_pred[b]) =
              {e \in DOMAIN edge_index :
                 {edge_index[e][1], edge_index[e][2]} \subseteq ShowerNodes(b)}
         /\ Len0(edge_pred[b]) = Cardinality(Elems(edge_pred[b]))
         /\ DOMAIN frag_edge_index[b] = DOMAIN edge_pred[b]
         /\ \A k \in DOMAIN frag_edge_index[b] : \A side \in {1, 2} :
              /\ frag_edge_index[b][k][side] \in 0..(Cardinality(ShowerNodes(b)) - 1)
              /\ IsLocalOf(frag_edge_index[b][k][side],
                           edge_index[edge_pred[b][k]][side], ShowerNodes(b))
         /\ \A k \in DOMAIN frags[b] : \A j \in DOMAIN frags[b][k] :
              frags[b][k][j] \in 0..(NumPoints(b) - 1)

\* The outputs of the interaction GNN are split in the same way: one
\* entry per batch element in batch order, one edge row per edge of element
\* b, local node indices in range and standing for the particle whose global
\* index they replaced, local point indices of particles[b] in range
InterRebatchCorrect ==
  pc = "done" =>
    /\ DOMAIN inter_edge_pred = 0..(NumBatch - 1)
    /\ DOMAIN inter_edge_index = 0..(NumBatch - 1)
    /\ DOMAIN out_particles = 0..(NumBatch - 1)
    /\ \A b \in 0..(NumBatch - 1) :
         /\ Len0(out_particles[b]) = Cardinality(ParticleNodes(b))
         /\ Elems(inter_edge_pred[b]) =
              {e \in DOMAIN inter_index :
                 {inter_index[e][1], inter_index[e][2]} \subseteq ParticleNodes(b)}
         /\ Len0(inter_edge_pred[b]) = Cardinality(Elems(inter_edge_pred[b]))
         /\ DOMAIN inter_edge_index[b] = DOMAIN inter_edge_pred[b]
         /\ \A k \in DOMAIN inter_edge_index[b] : \A side \in {1, 2} :
              /\ inter_edge_index[b][k][side] \in 0..(Cardinality(ParticleNodes(b)) - 1)
              /\ IsLocalOf(inter_edge_index[b][k][side],
                           inter_index[inter_edge_pred[b][k]][side], ParticleNodes(b))
         /\ \A k \in DOMAIN out_particles[b] : \A j \in DOMAIN out_particles[b][k] :
              out_particles[b][k][j] \in 0..(NumPoints(b) - 1)

\* C13: the re-batching of the outputs of both GNNs is correct: per-element
\* lists in batch order, one node row per node and one edge row per edge of
\* the element, local node indices in range and standing for the entity whose
\* global index they replaced, local point indices in range
C13_RebatchCorrect == FragRebatchCorrect /\ InterRebatchCorrect

\* Two batch elements, the second with two shower fragments and two particles,
\* so that local node and point indices differ from the global ones
C13_Witness ==
  /\ pc = "done"
  /\ NumBatch = 2
  /\ Len0(frags[0]) > 0
  /\ \E k \in DOMAIN frag_edge_index[1] :
       frag_edge_index[1][k] # edge_index[edge_pred[1][k]]
  /\ \E k \in DOMAIN inter_edge_index[1] :
       inter_edge_index[1][k] # inter_index[inter_edge_pred[1][k]]
  /\ \E k \in DOMAIN out_particles[1] : \E j \in DOMAIN out_particles[1][k] :
       out_particles[1][k][j] = 0

\* ----------------------- FullChain.forward, lines 200-209: track end points
\* The voxels of a particle are distinct points of the grid
Positions == (0..MaxX) \X Rows

TrackInputs ==
  UNION {{p \in [0..(n - 1) -> Positions] : \A j, k \in 0..(n - 1) : p[j] = p[k] => j = k} :
           n \in 1..MaxTrackPoints}

\* local_cdist: the Euclidean distance of two points, kept as its square,
\* which orders the pairs as the distance does
Dist2(a, b) == (a[1] - b[1]) * (a[1] - b[1]) + (a[2] - b[2]) * (a[2] - b[2])

\* dist_mat, flattened row by row as torch.argmax reads it
DistMat(p) ==
  LET n == Len0(p)
  IN [f \in 0..(n * n - 1) |-> Dist2(p[f \div n], p[f % n])]

\* torch.argmax(dist_mat): a flat index of a maximal entry; which one of
\* several equal maxima is returned is not fixed
ArgmaxSet(mat) == {f \in DOMAIN mat : \A g \in DOMAIN mat : mat[g] <= mat[f]}

DecodeStartAsColumn(f, n) == f % n

\* start_id = int(idx/len(p))
DecodeStart(f, n) == f \div n

\* end_id = int(idx%len(p))
DecodeEnd(f, n) == f % n

\* dir = end-start; if dir.norm(): dir = dir/dir.norm()
\* The direction is the vector vec divided by the square root of norm2
Direction(s, e) ==
  LET d == <<e[1] - s[1], e[2] - s[2]>>
      n2 == d[1] * d[1] + d[2] * d[2]
  IN IF n2 # 0 THEN [vec |-> d, norm2 |-> n2] ELSE [vec |-> d, norm2 |-> 1]

InitTrack ==
  /\ pc = "track"
  /\ err = "none"
  /\ track_pts \in TrackInputs
  /\ idx = 0 /\ start_id = 0 /\ end_id = 0
  /\ start = <<0, 0>> /\ end = <<0, 0>> /\ dir = [vec |-> <<0, 0>>, norm2 |-> 1]
  /\ FwdUnset /\ EdgeLossUnset /\ ChainLossUnset

TrackEnds ==
  /\ pc = "track"
  /\ \E f \in ArgmaxSet(DistMat(track_pts)) :
       /\ idx' = f
       /\ start_id' = DecodeStart(f, Len0(track_pts))
       /\ end_id' = DecodeEnd(f, Len0(track_pts))
  /\ start' = track_pts[start_id']
  /\ end' = track_pts[end_id']
  /\ dir' = Direction(start', end')
  /\ pc' = "track_done"
  /\ UNCHANGED <<err, track_pts, fwdVars, edgeLossVars, chainLossVars>>

NextTrack == TrackEnds

SpecTrack == InitTrack /\ [][NextTrack]_vars

\* C10: the start and end of a track are two of its points at maximal
\* distance from each other, decoded from the flat argmax; the direction is
\* end - start scaled to unit length, and the zero vector when start = end;
\* four points in a line at 0, 1, 2, 3 give the ends 0 and 3
C10_TrackEndsAreFarthestPair ==
  pc = "track_done" =>
    /\ start_id \in DOMAIN track_pts /\ end_id \in DOMAIN track_pts
    /\ start = track_pts[start_id] /\ end = track_pts[end_id]
    /\ \A j, k \in DOMAIN track_pts :
         Dist2(track_pts[j], track_pts[k]) <= Dist2(start, end)
    /\ dir.vec = <<end[1] - start[1], end[2] - start[2]>>
    /\ IF start = end THEN dir.vec = <<0, 0>> /\ dir.norm2 = 1
                      ELSE dir.norm2 = Dist2(start, end)
    /\ track_pts = (0 :> <<0, 0>> @@ 1 :> <<1, 0>> @@ 2 :> <<2, 0>> @@ 3 :> <<3, 0>>) =>
         /\ {start, end} = {<<0, 0>>, <<3, 0>>}
         /\ dir.norm2 = 9 /\ dir.vec \in {<<3, 0>>, <<0 - 3, 0>>}

C10_Witness ==
  /\ pc = "track_done"
  /\ track_pts = (0 :> <<0, 0>> @@ 1 :> <<1, 0>> @@ 2 :> <<2, 0>> @@ 3 :> <<3, 0>>)
  /\ start = <<0, 0>> /\ end = <<3, 0>>
  /\ dir = [vec |-> <<3, 0>>, norm2 |-> 9]

\* ----------------------------------- EdgeChannelLoss (cluster_edge_gnn.py)
LossNames == {"CE", "MM", "BCE", "L1"}

\* cfg['modules']['clust_edge_model']: a dictionary that may lack either key
ModelConfigs ==
  {[loss |-> l, remove_compton |-> r] : l \in LossNames, r \in BOOLEAN}
    \cup {[loss |-> l] : l \in LossNames}
    \cup {[remove_compton |-> r] : r \in BOOLEAN}
    \cup {EmptyArr}

\* dict.get(key, default)
Get(cfg, key, default) == IF key \in DOMAIN cfg THEN cfg[key] ELSE default

SelectLossFnDefaultCE(name) ==
  IF name = "MM" THEN "MultiMarginLoss" ELSE "CrossEntropyLoss"

\* The if/elif/else of __init__ on self.loss
SelectLossFn(name) ==
  IF name = "CE" THEN "CrossEntropyLoss"
  ELSE IF name = "MM" THEN "MultiMarginLoss"
  ELSE "raise"

\* lossfn(edge_pred, edge_pred) on an empty prediction
SelfLoss == 0

InitEdgeLoss ==
  /\ pc = "new"
  /\ err = "none"
  /\ model_config \in ModelConfigs
  /\ remove_compton = TRUE /\ loss = "unset" /\ lossfn = "unset"
  /\ ngpus = 0 /\ i_gpu = 0 /\ seen = EmptyArr
  /\ total_loss = 0 /\ total_acc = 0 /\ result = "none"
  /\ FwdUnset /\ TrackUnset /\ ChainLossUnset

\* EdgeChannelLoss.__init__
EdgeLossConstruct ==
  /\ pc = "new"
  /\ remove_compton' = Get(model_config, "remove_compton", TRUE)
  /\ loss' = Get(model_config, "loss", "CE")
  /\ IF SelectLossFn(loss') = "raise"
       THEN /\ lossfn' = lossfn
            /\ pc' = "raised"
            /\ err' = <<"Exception", "unrecognized loss: ", loss'>>
       ELSE /\ lossfn' = SelectLossFn(loss')
            /\ pc' = "constructed"
            /\ err' = err
  /\ UNCHANGED <<model_config, ngpus, i_gpu, seen, total_loss, total_acc, result>>
  /\ UNCHANGED <<fwdVars, trackVars, chainLossVars>>

\* EdgeChannelLoss.forward, lines 136-139: one entry of clusters per replica
EdgeLossCall ==
  /\ pc = "constructed"
  /\ ngpus' \in 1..MaxGpus
  /\ i_gpu' = 0
  /\ seen' = EmptyArr
  /\ total_loss' = 0
  /\ total_acc' = 0
  /\ pc' = "loop"
  /\ UNCHANGED <<err, model_config, remove_compton, loss, lossfn, result>>
  /\ UNCHANGED <<fwdVars, trackVars, chainLossVars>>

\* edge_index of complete_graph over the clusters kept: non-empty when two
\* of them lie in the same event
EdgeCount(kept, same_event) == IF same_event THEN (kept * (kept - 1)) \div 2 ELSE 0

\* One pass of the loop over the replicas, lines 140-202.  The replica holds
\* clusts clusters of which sel pass the compton filter; term is the value of
\* lossfn on its edges.  ttotal_loss and totalacc are names never bound.
EdgeLossReplica ==
  /\ pc = "loop"
  /\ i_gpu < ngpus
  /\ \E clusts \in 0..MaxClusts, same_event \in BOOLEAN, term \in 1..MaxLoss :
       \E sel \in 0..clusts :
         IF remove_compton /\ sel = 0
           THEN /\ seen' = Append0(seen, [kind |-> "no_selection", term |-> SelfLoss])
                /\ pc' = "raised"
                /\ err' = <<"UnboundLocalError", "ttotal_loss">>
                /\ UNCHANGED <<total_loss, i_gpu>>
           ELSE IF EdgeCount(IF remove_compton THEN sel ELSE clusts, same_event) = 0
             THEN /\ seen' = Append0(seen, [kind |-> "no_edges", term |-> SelfLoss])
                  /\ total_loss' = total_loss + SelfLoss
                  /\ pc' = "raised"
                  /\ err' = <<"UnboundLocalError", "totalacc">>
                  /\ UNCHANGED i_gpu
             ELSE /\ seen' = Append0(seen, [kind |-> "edges", term |-> term])
                  /\ total_loss' = term
                  /\ i_gpu' = i_gpu + 1
                  /\ UNCHANGED <<pc, err>>
  /\ UNCHANGED <<model_config, remove_compton, loss, lossfn, ngpus, total_acc, result>>
  /\ UNCHANGED <<fwdVars, trackVars, chainLossVars>>

\* The returned dictionary, lines 204-213; a quotient is kept as the pair
\* <<numerator, denominator>>
EdgeLossReturn ==
  /\ pc = "loop"
  /\ i_gpu = ngpus
  /\ result' = [loss |-> <<total_loss, ngpus>>, accuracy |-> <<total_acc, ngpus>>]
  /\ pc' = "returned"
  /\ UNCHANGED <<err, model_config, remove_compton, loss, lossfn, ngpus, i_gpu, seen,
                 total_loss, total_acc>>
  /\ UNCHANGED <<fwdVars, trackVars, chainLossVars>>

NextEdgeLoss == EdgeLossConstruct \/ EdgeLossCall \/ EdgeLossReplica \/ EdgeLossReturn

SpecEdgeLoss == InitEdgeLoss /\ [][NextEdgeLoss]_vars

\* C4: a replica without qualifying clusters or without edges does not make
\* forward raise: it is counted like any other, adds the zero self-comparison
\* term to the total, and the call goes on to return its dictionary
C4_EmptyReplicaAddsZeroTerm ==
  \A k \in DOMAIN seen :
    seen[k].kind \in {"no_selection", "no_edges"} =>
      /\ pc \in {"loop", "returned"}
      /\ i_gpu > k
      /\ seen[k].term = 0

\* C9: a configured loss name other than CE and MM makes the construction
\* raise an exception that names it, and installs no loss function
C9_UnknownLossRaises ==
  (pc # "new" /\ "loss" \in DOMAIN model_config /\ model_config.loss \notin {"CE", "MM"}) =>
    /\ pc = "raised"
    /\ err = <<"Exception", "unrecognized loss: ", model_config.loss>>
    /\ lossfn = "unset"

C9_Witness ==
  /\ pc = "raised"
  /\ "loss" \in DOMAIN model_config
  /\ model_config.loss = "BCE"
  /\ err = <<"Exception", "unrecognized loss: ", "BCE">>

\* The sum of the loss terms of the replicas processed so far
SeenTotal == SumUpTo([k \in DOMAIN seen |-> seen[k].term], Len0(seen))

\* C12: the returned loss is the sum of the loss terms of all replicas
\* divided by the number of replicas
C12_LossIsAverageOverReplicas ==
  pc = "returned" => result.loss = <<SeenTotal, ngpus>>

\* ----------------------------------------- FullChainLoss (full_chain_5.py)
WeightKeys ==
  {"segmentation_weight", "ppn_weight", "particle_gnn_weight", "interaction_gnn_weight"}

Components == {"segmentation", "ppn", "particle_gnn", "inter_gnn"}

\* loss_config.get(key, 1.0)
DefaultWeight == 1

InitChainLoss ==
  /\ pc = "new"
  /\ err = "none"
  /\ loss_config \in UNION {[K -> 0..MaxWeight] : K \in SUBSET WeightKeys}
  /\ weights = EmptyArr /\ res_loss = EmptyArr /\ chain_loss = 0
  /\ FwdUnset /\ TrackUnset /\ EdgeLossUnset

\* FullChainLoss.__init__, lines 258-263
ChainLossConstruct ==
  /\ pc = "new"
  /\ weights' =
       [segmentation |-> Get(loss_config, "segmentation_weight", DefaultWeight),
        ppn |-> Get(loss_config, "ppn_weight", DefaultWeight),
        particle_gnn |-> Get(loss_config, "particle_gnn_weight", DefaultWeight),
        inter_gnn |-> Get(loss_config, "particle_gnn_weight", DefaultWeight)]
  /\ pc' = "constructed"
  /\ UNCHANGED <<err, loss_config, res_loss, chain_loss>>
  /\ UNCHANGED <<fwdVars, trackVars, edgeLossVars>>

\* FullChainLoss.forward: the four component losses are computed, then
\* combined, lines 321-324
ChainLossForward ==
  /\ pc = "constructed"
  /\ res_loss' \in [Components -> 0..MaxCompLoss]
  /\ chain_loss' = weights.segmentation * res_loss'["segmentation"]
                     + weights.ppn * res_loss'["ppn"]
                     + weights.particle_gnn * res_loss'["particle_gnn"]
                     + weights.inter_gnn * res_loss'["inter_gnn"]
  /\ pc' = "returned"
  /\ UNCHANGED <<err, loss_config, weights>>
  /\ UNCHANGED <<fwdVars, trackVars, edgeLossVars>>

NextChainLoss == ChainLossConstruct \/ ChainLossForward

SpecChainLoss == InitChainLoss /\ [][NextChainLoss]_vars

\* The weight configured under a key, 1.0 when the key is absent
Configured(key) == IF key \in DOMAIN loss_config THEN loss_config[key] ELSE 1

\* C5: the returned loss is the sum of the four component losses, each times
\* the weight configured under its own key
C5_LossIsConfiguredWeightedSum ==
  pc = "returned" =>
    chain_loss = Configured("segmentation_weight") * res_loss["segmentation"]
                   + Configured("ppn_weight") * res_loss["ppn"]
                   + Configured("particle_gnn_weight") * res_loss["particle_gnn"]
                   + Configured("interaction_gnn_weight") * res_loss["inter_gnn"]

====
